---- MODULE Spec2Model ----
(***************************************************************************)
(* Model of the property chatbot in src/main.py: the price token           *)
(* normaliser (parse_price_token), the query parser (parse_query), the     *)
(* search/rank engine (search_properties) and the chat loop that appends   *)
(* to st.session_state.chat_history.                                        *)
(*                                                                         *)
(* Text is modelled at character level: a Python str is a sequence of      *)
(* one-character strings, so that substring tests and the regular          *)
(* expressions of the source are computed, not assumed.                    *)
(*                                                                         *)
(* A Python float is modelled as an exact decimal m * 10^e (record         *)
(* [m, e], m not divisible by 10).  The products formed from the inputs   *)
(* used below are exact in IEEE double arithmetic as well, so rounding     *)
(* plays no part in the properties stated here.                            *)
(***************************************************************************)
EXTENDS Integers, Sequences, FiniteSets, TLC

VARIABLES data, chat_history, last, tok, amount

vars == <<data, chat_history, last, tok, amount>>

----------------------------------------------------------------------------
(* Characters and str methods                                              *)

Digits == {"0", "1", "2", "3", "4", "5", "6", "7", "8", "9"}

DigitVal(c) ==
  CASE c = "0" -> 0 [] c = "1" -> 1 [] c = "2" -> 2 [] c = "3" -> 3
    [] c = "4" -> 4 [] c = "5" -> 5 [] c = "6" -> 6 [] c = "7" -> 7
    [] c = "8" -> 8 [] c = "9" -> 9

UpperLetters == <<"A","B","C","D","E","F","G","H","I","J","K","L","M","N","O","P","Q","R","S","T","U","V","W","X","Y","Z">>
LowerLetters == <<"a","b","c","d","e","f","g","h","i","j","k","l","m","n","o","p","q","r","s","t","u","v","w","x","y","z">>

\* str.lower() on one character
LowerCh(c) ==
  IF \E i \in 1..26 : UpperLetters[i] = c
  THEN LowerLetters[CHOOSE i \in 1..26 : UpperLetters[i] = c]
  ELSE c

\* str.lower()
Lower(s) == [i \in 1..Len(s) |-> LowerCh(s[i])]

IsSpace(c) == c = " "

\* \w as far as the alphabet used here goes
IsWordCh(c) ==
  \/ c \in Digits
  \/ c = "_"
  \/ \E i \in 1..26 : LowerLetters[i] = c \/ UpperLetters[i] = c

\* str.replace(",", "")
RemoveCommas(s) == SelectSeq(s, LAMBDA c : c # ",")

RECURSIVE LStrip(_)
LStrip(s) == IF s # << >> /\ IsSpace(Head(s)) THEN LStrip(Tail(s)) ELSE s

RECURSIVE RStrip(_)
RStrip(s) ==
  IF s # << >> /\ IsSpace(s[Len(s)]) THEN RStrip(SubSeq(s, 1, Len(s) - 1)) ELSE s

\* str.strip()
Strip(s) == RStrip(LStrip(s))

\* pattern p occurs in s at position i
MatchAt(p, s, i) ==
  /\ i >= 1
  /\ i + Len(p) - 1 <= Len(s)
  /\ \A j \in 1..Len(p) : s[i + j - 1] = p[j]

\* Python "p in s"
Contains(p, s) == \E i \in 1..(Len(s) + 1) : MatchAt(p, s, i)

SetMin(S) == CHOOSE x \in S : \A y \in S : x <= y

\* the character classes of the patterns: \s, [\d\.] and \d
SpaceChars == {" "}
NumChars == Digits \cup {"."}

\* end of the maximal run of characters of class cls that starts at i
\* (i - 1 when s[i] is not in the class)
RECURSIVE RunEnd(_, _, _)
RunEnd(cls, s, i) ==
  IF i <= Len(s) /\ s[i] \in cls THEN RunEnd(cls, s, i + 1) ELSE i - 1

\* first position at or after i that is not whitespace: the effect of \s*
SkipSpaces(s, i) == RunEnd(SpaceChars, s, i) + 1

----------------------------------------------------------------------------
(* Python floats, as exact decimals                                        *)

RECURSIVE Pow10(_)
Pow10(n) == IF n <= 0 THEN 1 ELSE 10 * Pow10(n - 1)

RECURSIVE NDigits(_)
NDigits(m) == IF m < 10 THEN 1 ELSE 1 + NDigits(m \div 10)

RECURSIVE Norm(_, _)
Norm(m, e) ==
  IF m = 0 THEN [m |-> 0, e |-> 0]
  ELSE IF m % 10 = 0 THEN Norm(m \div 10, e + 1)
  ELSE [m |-> m, e |-> e]

FromInt(n) == Norm(n, 0)

\* a * 10^p
Times10(a, p) == IF a.m = 0 THEN a ELSE [m |-> a.m, e |-> a.e + p]

\* a < b for non-negative decimals
Less(a, b) ==
  IF b.m = 0 THEN FALSE
  ELSE IF a.m = 0 THEN TRUE
  ELSE LET ma == NDigits(a.m) + a.e
           mb == NDigits(b.m) + b.e
           lo == IF a.e < b.e THEN a.e ELSE b.e
       IN  IF ma # mb THEN ma < mb
           ELSE a.m * Pow10(a.e - lo) < b.m * Pow10(b.e - lo)

Leq(a, b) == ~Less(b, a)

RECURSIVE DigitsToInt(_)
DigitsToInt(s) ==
  IF s = << >> THEN 0
  ELSE 10 * DigitsToInt(SubSeq(s, 1, Len(s) - 1)) + DigitVal(s[Len(s)])

\* float(g) succeeds on a run of digits and dots iff it has at most one dot
\* and at least one digit; otherwise Python raises ValueError
FloatOk(g) ==
  /\ Cardinality({i \in 1..Len(g) : g[i] = "."}) <= 1
  /\ \E i \in 1..Len(g) : g[i] \in Digits

\* float(g) for a g with FloatOk(g)
Float(g) ==
  LET ds  == SelectSeq(g, LAMBDA c : c \in Digits)
      dot == {i \in 1..Len(g) : g[i] = "."}
      k   == IF dot = {} THEN 0 ELSE Len(g) - SetMin(dot)
  IN  Norm(DigitsToInt(ds), 0 - k)

----------------------------------------------------------------------------
(* parse_price_token                                                       *)

\* results of a call: an amount, None, or a raised ValueError
None == [tag |-> "None", m |-> 0, e |-> 0]
ValueError == [tag |-> "ValueError", m |-> 0, e |-> 0]
Amt(a) == [tag |-> "float", m |-> a.m, e |-> a.e]
IsAmt(r) == r.tag = "float"

CroreUnits == {<<"c","r">>, <<"c","r","o","r","e">>}
LakhUnits == {<<"l">>, <<"l","a","c">>, <<"l","a","k","h">>}
Threshold == 1000
CroreExp == 7
LakhExp == 5

\* re.search(r"(<class>+)\s*(u1|u2|...)", s).group(1), or << >> when there
\* is no match.  The number group must extend to the end of its run and
\* \s* must consume all the whitespace that follows, because the next
\* character has to start a unit; the leftmost start wins.
SearchRunUnit(cls, s, units) ==
  LET starts == {i \in 1..Len(s) :
                   /\ s[i] \in cls
                   /\ \E u \in units :
                        MatchAt(u, s, SkipSpaces(s, RunEnd(cls, s, i) + 1))}
  IN  IF starts = {} THEN << >>
      ELSE SubSeq(s, SetMin(starts), RunEnd(cls, s, SetMin(starts)))

SearchNumUnit(s, units) == SearchRunUnit(NumChars, s, units)

\* re.search(r"([\d\.]+)", s).group(1), or << >>
SearchNum(s) ==
  LET starts == {i \in 1..Len(s) : s[i] \in NumChars}
  IN  IF starts = {} THEN << >>
      ELSE SubSeq(s, SetMin(starts), RunEnd(NumChars, s, SetMin(starts)))

\* float(m.group(1)) * 10^p
FloatTimes(g, p) == IF FloatOk(g) THEN Amt(Times10(Float(g), p)) ELSE ValueError

BareAmount_ThresholdInclusive(g) ==
  IF ~FloatOk(g) THEN ValueError
  ELSE IF Leq(Float(g), FromInt(Threshold)) THEN Amt(Times10(Float(g), LakhExp))
  ELSE Amt(Float(g))

BareAmount(g) ==
  IF ~FloatOk(g) THEN ValueError
  ELSE IF Less(Float(g), FromInt(Threshold)) THEN Amt(Times10(Float(g), LakhExp))
  ELSE Amt(Float(g))

parse_price_token_UnitsSwapped(txt) ==
  LET t  == Strip(RemoveCommas(Lower(txt)))
      g1 == SearchNumUnit(t, CroreUnits)
      g2 == SearchNumUnit(t, LakhUnits)
      g3 == SearchNum(t)
  IN  IF g1 # << >> THEN FloatTimes(g1, LakhExp)
      ELSE IF g2 # << >> THEN FloatTimes(g2, CroreExp)
      ELSE IF g3 # << >> THEN BareAmount(g3)
      ELSE None

parse_price_token(txt) ==
  LET t  == Strip(RemoveCommas(Lower(txt)))
      g1 == SearchNumUnit(t, CroreUnits)
      g2 == SearchNumUnit(t, LakhUnits)
      g3 == SearchNum(t)
  IN  IF g1 # << >> THEN FloatTimes(g1, CroreExp)
      ELSE IF g2 # << >> THEN FloatTimes(g2, LakhExp)
      ELSE IF g3 # << >> THEN BareAmount(g3)
      ELSE None

----------------------------------------------------------------------------
(* Inputs of the price token normaliser                                    *)

\* well-formed numbers N, some written with thousands separators
NumStrs ==
  { <<"0">>, <<"1">>, <<"2">>, <<"5","0">>, <<"1",".","5">>, <<".","5">>, <<"5",".">>, <<"1","2">>, <<"9","9","9">>, <<"1","0","0","0">>,
    <<"1","0","0","1">>, <<"1",",","0","0","0">>, <<"9","9","9",".","5">>, <<"9","9","9",".","9","9">>, <<"1","0","0","0",".","5">>, <<"1","2",",","5","0",",","0","0","0">>, <<"7","5">> }

UnitStrs == { <<"c","r">>, <<"c","r","o","r","e">>, <<"l","a","k","h">>, <<"l","a","c">>, <<"l">>, <<"C","r">>, <<"C","R","O","R","E">>, <<"L","a","k","h">>,
              <<"L","A","C">>, <<"L">> }

SepStrs == { << >>, <<" ">>, <<" "," ">> }

PadStrs == { << >>, <<" ">> }

\* price cells and fragments that are not of the form N or N unit
FreeTexts ==
  { << >>, <<"n",".","a",".">>, <<"a","b","c">>, <<".">>, <<".",".",".">>, <<"c","a","l","l"," ","u","s">>, <<"o","n"," ","r","e","q","u","e","s","t">>,
    <<"1",".","2",".","3">>, <<"r","s","."," ","5","0"," ","l","a","k","h">>, <<"r","s","."," ","5","0","0","0","0","0","0">>, <<"p","r","i","c","e",":"," ","2"," ","c","r">>, <<"-">>, <<"t","b","d",".">> }

Tokens ==
  [form : {"unit"}, num : NumStrs, sep : SepStrs, unit : UnitStrs, pad : PadStrs,
   text : {<< >>}]
  \cup
  [form : {"bare"}, num : NumStrs, sep : {<< >>}, unit : {<< >>}, pad : PadStrs,
   text : {<< >>}]
  \cup
  [form : {"text"}, num : {<< >>}, sep : {<< >>}, unit : {<< >>}, pad : {<< >>},
   text : FreeTexts]

NoToken ==
  [form |-> "none", num |-> << >>, sep |-> << >>, unit |-> << >>, pad |-> << >>,
   text |-> << >>]

\* the text handed to parse_price_token
TokenText(t) ==
  IF t.form = "text" THEN t.text
  ELSE t.pad \o t.num \o t.sep \o t.unit \o t.pad

Pending == [tag |-> "pending", m |-> 0, e |-> 0]

----------------------------------------------------------------------------
(* fuzzy_city                                                              *)

COMMON_CITIES ==
  << <<"m","u","m","b","a","i">>, <<"p","u","n","e">>, <<"d","e","l","h","i">>, <<"b","a","n","g","a","l","o","r","e">>, <<"b","e","n","g","a","l","u","r","u">>, <<"h","y","d","e","r","a","b","a","d">>,
     <<"c","h","e","n","n","a","i">>, <<"k","o","l","k","a","t","a">>, <<"a","h","m","e","d","a","b","a","d">>, <<"n","o","i","d","a">>, <<"g","u","r","g","a","o","n">>, <<"t","h","a","n","e">> >>

\* no city: the None of fuzzy_city; a city of the vocabulary is never empty
NoCity == << >>

\* fuzzywuzzy.utils.full_process, the processor extractOne applies to the
\* query: characters that are not letters or digits become spaces, then
\* lower() and strip()
full_process(q) ==
  Strip(Lower([i \in 1..Len(q) |->
                 IF IsWordCh(q[i]) /\ q[i] # "_" THEN q[i] ELSE " "]))

\* 1.5 <= len ratio <= 8 between the processed query p and the city c, the
\* range in which fuzz.WRatio scales fuzz.partial_ratio by 0.9
PartialScaled(p, c) == 2 * Len(p) >= 3 * Len(c) /\ Len(p) <= 8 * Len(c)

\* The possible results of fuzzy_city(query).  process.extractOne scores the
\* query against each city with fuzz.WRatio and returns the first best one;
\* fuzzy_city keeps it when the score exceeds 70.  The scorer is a library:
\* - a query equal to a city scores 100;
\* - a city that occurs in the query scores 90 when the length ratio is in
\*   [1.5, 8] (partial_ratio 100, scaled by 0.9), and every city that does
\*   not occur scores at most 89 once the query is at least 1.5 times as
\*   long as the city;
\* - in every other case the score depends on edit distances that are not
\*   modelled, and any outcome is allowed.
fuzzy_city(query) ==
  LET p     == full_process(Lower(query))
      n     == Len(COMMON_CITIES)
      exact == {i \in 1..n : COMMON_CITIES[i] = p}
      sure  == {i \in 1..n : Contains(COMMON_CITIES[i], p)
                             /\ PartialScaled(p, COMMON_CITIES[i])}
  IN  IF exact # {} THEN {COMMON_CITIES[SetMin(exact)]}
      ELSE IF sure # {} /\ \A i \in 1..n : 2 * Len(p) >= 3 * Len(COMMON_CITIES[i])
      THEN {COMMON_CITIES[SetMin(sure)]}
      ELSE {COMMON_CITIES[i] : i \in 1..n} \cup {NoCity}

----------------------------------------------------------------------------
(* parse_query                                                             *)

\* the None of an optional integer (bhk); the regular expressions only
\* produce non-negative integers
NoneInt == -1

DefaultLimit == 5

\* re.search(r"(\d+)\s*bhk", q): int(m.group(1)), or None
ParseBhk(q) ==
  LET g == SearchRunUnit(Digits, q, {<<"b","h","k">>})
  IN  IF g = << >> THEN NoneInt ELSE DigitsToInt(g)

PriceWords == {<<"u","n","d","e","r">>, <<"b","e","l","o","w">>, <<"u","p","t","o">>, <<"l","e","s","s"," ","t","h","a","n">>}

\* the optional unit of the max-price pattern, alternatives in source order
FragmentUnits == << <<"c","r">>, <<"c","r","o","r","e">>, <<"l","a","k","h">>, <<"l","a","c">>, <<"l">> >>

\* position right after the keyword and the whitespace that follows it, for
\* a keyword of kws that occurs at p; 0 when none occurs there
AfterWord(kws, q, p) ==
  IF \E w \in kws : MatchAt(w, q, p)
  THEN SkipSpaces(q, p + Len(CHOOSE w \in kws : MatchAt(w, q, p)))
  ELSE 0

\* re.search(r"(?:under|below|upto|less than)\s*([\d\.]+\s*(?:cr|crore|lakh|lac|l)?)", q)
\* .group(1), or << >> when there is no match
PriceFragment(q) ==
  LET starts == {p \in 1..Len(q) :
                   LET a == AfterWord(PriceWords, q, p)
                   IN  a >= 1 /\ a <= Len(q) /\ q[a] \in NumChars}
  IN  IF starts = {} THEN << >>
      ELSE LET a  == AfterWord(PriceWords, q, SetMin(starts))
               b  == SkipSpaces(q, RunEnd(NumChars, q, a) + 1)
               us == {i \in 1..Len(FragmentUnits) : MatchAt(FragmentUnits[i], q, b)}
           IN  IF us = {} THEN SubSeq(q, a, b - 1)
               ELSE SubSeq(q, a, b + Len(FragmentUnits[SetMin(us)]) - 1)

\* max_price = parse_price_token(m.group(1)) if m else None
ParseMaxPrice(q) ==
  IF PriceFragment(q) = << >> THEN None ELSE parse_price_token(PriceFragment(q))

LimitWords == {<<"t","o","p">>, <<"b","e","s","t">>}

\* re.search(r"(top|best)\s*(\d+)", q): int(m.group(2)), or 5
ParseLimit(q) ==
  LET starts == {p \in 1..Len(q) :
                   LET a == AfterWord(LimitWords, q, p)
                   IN  a >= 1 /\ a <= Len(q) /\ q[a] \in Digits}
  IN  IF starts = {} THEN DefaultLimit
      ELSE LET a == AfterWord(LimitWords, q, SetMin(starts))
           IN  DigitsToInt(SubSeq(q, a, RunEnd(Digits, q, a)))

\* the keyword table of parse_query, in dict order
intents_NoTopKeyword ==
  << [tag |-> "cheap",
      words |-> {<<"c","h","e","a","p">>, <<"b","u","d","g","e","t">>, <<"a","f","f","o","r","d","a","b","l","e">>, <<"l","o","w"," ","p","r","i","c","e">>, <<"u","n","d","e","r">>, <<"e","c","o","n","o","m","y">>}],
     [tag |-> "luxury",
      words |-> {<<"l","u","x","u","r","y">>, <<"h","i","g","h"," ","e","n","d">>, <<"p","r","e","m","i","u","m">>, <<"e","x","p","e","n","s","i","v","e">>}],
     [tag |-> "best",
      words |-> {<<"b","e","s","t">>, <<"r","e","c","o","m","m","e","n","d","e","d">>, <<"p","o","p","u","l","a","r">>, <<"f","a","m","o","u","s">>}],
     [tag |-> "near",
      words |-> {<<"n","e","a","r">>, <<"a","r","o","u","n","d">>, <<"c","l","o","s","e"," ","t","o">>, <<"b","e","s","i","d","e">>, <<"n","e","a","r","b","y">>}],
     [tag |-> "family",
      words |-> {<<"f","a","m","i","l","y">>, <<"k","i","d","s">>, <<"s","a","f","e">>, <<"p","e","a","c","e","f","u","l">>, <<"r","e","s","i","d","e","n","t","i","a","l">>}],
     [tag |-> "investment",
      words |-> {<<"i","n","v","e","s","t","m","e","n","t">>, <<"r","e","t","u","r","n","s">>, <<"r","o","i">>, <<"p","r","o","f","i","t">>}] >>

intents ==
  << [tag |-> "cheap",
      words |-> {<<"c","h","e","a","p">>, <<"b","u","d","g","e","t">>, <<"a","f","f","o","r","d","a","b","l","e">>, <<"l","o","w"," ","p","r","i","c","e">>, <<"u","n","d","e","r">>, <<"e","c","o","n","o","m","y">>}],
     [tag |-> "luxury",
      words |-> {<<"l","u","x","u","r","y">>, <<"h","i","g","h"," ","e","n","d">>, <<"p","r","e","m","i","u","m">>, <<"e","x","p","e","n","s","i","v","e">>}],
     [tag |-> "best",
      words |-> {<<"b","e","s","t">>, <<"t","o","p">>, <<"r","e","c","o","m","m","e","n","d","e","d">>, <<"p","o","p","u","l","a","r">>, <<"f","a","m","o","u","s">>}],
     [tag |-> "near",
      words |-> {<<"n","e","a","r">>, <<"a","r","o","u","n","d">>, <<"c","l","o","s","e"," ","t","o">>, <<"b","e","s","i","d","e">>, <<"n","e","a","r","b","y">>}],
     [tag |-> "family",
      words |-> {<<"f","a","m","i","l","y">>, <<"k","i","d","s">>, <<"s","a","f","e">>, <<"p","e","a","c","e","f","u","l">>, <<"r","e","s","i","d","e","n","t","i","a","l">>}],
     [tag |-> "investment",
      words |-> {<<"i","n","v","e","s","t","m","e","n","t">>, <<"r","e","t","u","r","n","s">>, <<"r","o","i">>, <<"p","r","o","f","i","t">>}] >>

\* the list "detected": one entry per tag with a keyword in q, in table order
RECURSIVE Detect(_, _)
Detect(q, i) ==
  IF i > Len(intents) THEN << >>
  ELSE (IF \E w \in intents[i].words : Contains(w, q)
        THEN <<intents[i].tag>> ELSE << >>) \o Detect(q, i + 1)

NoFilter ==
  [raised |-> FALSE, city |-> NoCity, bhk |-> NoneInt, max_price |-> None,
   intents |-> << >>, limit |-> DefaultLimit]

\* parse_query(q0), given the result city of fuzzy_city; raised is TRUE when
\* parse_price_token raised ValueError, and no filter is returned then
parse_query(q0, city) ==
  LET q  == Strip(Lower(q0))
      mp == ParseMaxPrice(q)
  IN  IF mp = ValueError THEN [NoFilter EXCEPT !.raised = TRUE]
      ELSE [raised |-> FALSE, city |-> city, bhk |-> ParseBhk(q), max_price |-> mp,
            intents |-> Detect(q, 1), limit |-> ParseLimit(q)]

----------------------------------------------------------------------------
(* search_properties                                                       *)

\* A DataFrame is [columns, rows]: the column names and, per row, one cell
\* per column.  Cells are text: load_csvs fills missing cells with "" and
\* search_properties reads every cell through astype(str) / str(v).

\* next((c for c in df.columns if <a word of words> in c), None) as a column
\* position, 0 for None
FirstCol(cols, words) ==
  LET hits == {i \in 1..Len(cols) : \E w \in words : Contains(w, cols[i])}
  IN  IF hits = {} THEN 0 ELSE SetMin(hits)

LowerCols(df) == [i \in 1..Len(df.columns) |-> Lower(df.columns[i])]

price_col(df) == FirstCol(LowerCols(df), {<<"p","r","i","c","e">>, <<"a","m","o","u","n","t">>})
city_col(df) == FirstCol(LowerCols(df), {<<"c","i","t","y">>, <<"l","o","c","a","t","i","o","n">>, <<"a","r","e","a">>})
name_col(df) ==
  LET c == FirstCol(LowerCols(df), {<<"p","r","o","j","e","c","t","n","a","m","e">>, <<"n","a","m","e">>, <<"t","i","t","l","e">>})
  IN  IF c = 0 THEN 1 ELSE c
addr_col(df) == FirstCol(LowerCols(df), {<<"a","d","d","r","e","s","s">>})
desc_col(df) == FirstCol(LowerCols(df), {<<"d","e","s","c","r","i","p","t","i","o","n">>, <<"a","b","o","u","t">>})

to_price(x) == parse_price_token(x)

\* df["_price"], row by row; an entry ValueError means that building the
\* column raised
DerivedPrice(df, i) ==
  IF price_col(df) = 0 THEN None ELSE to_price(df.rows[i][price_col(df)])

PriceRaises(df) == \E i \in 1..Len(df.rows) : DerivedPrice(df, i) = ValueError

DigitChars == <<"0","1","2","3","4","5","6","7","8","9">>

\* str(n) for n >= 0, as interpolated into the bhk pattern
RECURSIVE IntToStr(_)
IntToStr(n) ==
  IF n < 10 THEN <<DigitChars[n + 1]>>
  ELSE IntToStr(n \div 10) \o <<DigitChars[(n % 10) + 1]>>

\* \b at the gap before position i of s
WordBoundary(s, i) ==
  LET before == i > 1 /\ i - 1 <= Len(s) /\ IsWordCh(s[i - 1])
      after  == i >= 1 /\ i <= Len(s) /\ IsWordCh(s[i])
  IN  before # after

\* re.compile(rf"\b{n}\s*bhk\b", re.IGNORECASE).search(cell) is not None
BhkMatch(n, cell) ==
  LET c  == Lower(cell)
      ns == IntToStr(n)
  IN  \E i \in 1..Len(c) :
        /\ WordBoundary(c, i)
        /\ MatchAt(ns, c, i)
        /\ LET b == SkipSpaces(c, i + Len(ns))
           IN  MatchAt(<<"b","h","k">>, c, b) /\ WordBoundary(c, b + 3)

\* any(city.lower() in str(v).lower() for v in row).  The scan also visits
\* the derived _price cell, whose text ("5000000.0", "nan", "None") holds
\* no city name and no "bhk".
CityMatch(city, row) ==
  \E j \in 1..Len(row) : Contains(Lower(city), Lower(row[j]))

AnyBhkMatch(n, row) == \E j \in 1..Len(row) : BhkMatch(n, row[j])

\* fillna(1e15)
PriceBig == [m |-> 1, e |-> 15]

FillNa(p) == IF p = None THEN PriceBig ELSE [m |-> p.m, e |-> p.e]

PriceMatch(max_price, p) == Leq(FillNa(p), [m |-> max_price.m, e |-> max_price.e])

\* truthiness of the values a filter holds: filters.get(k) is falsy for
\* None, for 0 and 0.0, and for ""
CityTruthy(f) == f.city # NoCity
BhkTruthy(f) == f.bhk # NoneInt /\ f.bhk # 0
MaxPriceTruthy(f) == IsAmt(f.max_price) /\ f.max_price.m # 0

\* mask[i] after the three "mask &=" steps
Mask(df, f, i) ==
  /\ CityTruthy(f) => CityMatch(f.city, df.rows[i])
  /\ BhkTruthy(f) => AnyBhkMatch(f.bhk, df.rows[i])
  /\ MaxPriceTruthy(f) => PriceMatch(f.max_price, DerivedPrice(df, i))

Indices(df) == [i \in 1..Len(df.rows) |-> i]

\* df[mask], as the row labels kept, in table order
Filtered(df, f) == SelectSeq(Indices(df), LAMBDA i : Mask(df, f, i))

Range(s) == {s[i] : i \in 1..Len(s)}

\* the orders in which the rows of r can be arranged
Perms(r) ==
  {p \in [1..Len(r) -> Range(r)] : \A i, j \in 1..Len(r) : p[i] = p[j] => i = j}

\* sort_values("_price", ascending): rows without a price go last
\* (na_position="last") whatever the direction; rows with equal prices may
\* come out in any order (the sort is not stable)
InOrder(df, p, ascending) ==
  \A i \in 1..(Len(p) - 1) :
    LET a == DerivedPrice(df, p[i])
        b == DerivedPrice(df, p[i + 1])
    IN  \/ b = None
        \/ /\ a # None
           /\ IF ascending THEN Leq(FillNa(a), FillNa(b)) ELSE Leq(FillNa(b), FillNa(a))

Has(tag, f) == \E k \in 1..Len(f.intents) : f.intents[k] = tag

Ranked_LuxuryFirst(df, f, r) ==
  IF Has("luxury", f) THEN {p \in Perms(r) : InOrder(df, p, FALSE)}
  ELSE IF Has("cheap", f) THEN {p \in Perms(r) : InOrder(df, p, TRUE)}
  ELSE IF Has("best", f) THEN Perms(r)
  ELSE {r}

\* the intent-based sorting; "best" is results.sample(frac=1), a random
\* permutation
Ranked(df, f, r) ==
  IF Has("cheap", f) THEN {p \in Perms(r) : InOrder(df, p, TRUE)}
  ELSE IF Has("luxury", f) THEN {p \in Perms(r) : InOrder(df, p, FALSE)}
  ELSE IF Has("best", f) THEN Perms(r)
  ELSE {r}

\* results.head(n) for n >= 0
HeadRows(r, n) == SubSeq(r, 1, IF n < Len(r) THEN n ELSE Len(r))

\* str.title(): a letter is upper-cased after a non-letter and lower-cased
\* after a letter
IsLetter(c) == \E i \in 1..26 : LowerLetters[i] = c \/ UpperLetters[i] = c

UpperCh(c) ==
  IF \E i \in 1..26 : LowerLetters[i] = c
  THEN UpperLetters[CHOOSE i \in 1..26 : LowerLetters[i] = c]
  ELSE c

Title(s) ==
  [i \in 1..Len(s) |->
     IF i > 1 /\ IsLetter(s[i - 1]) THEN LowerCh(s[i]) ELSE UpperCh(s[i])]

DescMax == 100

Cell(df, i, col) == IF col = 0 THEN << >> ELSE Strip(df.rows[i][col])

\* one rendered block: the parts of msg; an empty part is left out of the
\* text
Render(df, i) ==
  LET desc == Cell(df, i, desc_col(df))
  IN  [name  |-> Cell(df, i, name_col(df)),
       city  |-> Title(Cell(df, i, city_col(df))),
       price |-> Cell(df, i, price_col(df)),
       addr  |-> Cell(df, i, addr_col(df)),
       desc  |-> IF Len(desc) > DescMax THEN SubSeq(desc, 1, DescMax) \o <<".",".",".">>
                 ELSE desc]

NoMatchMessage == "Sorry, no matching properties found. Try using simpler terms."

Intro(f) ==
  IF Has("cheap", f) THEN "Here are some budget-friendly options:"
  ELSE IF Has("luxury", f) THEN "These are some luxury apartments you might like:"
  ELSE IF Has("best", f) THEN "Top properties based on popularity and data:"
  ELSE "Here are some matching properties:"

\* a str shown in the chat: either the prompt as typed (s) or a reply, an
\* intro line followed by rendered blocks
PromptText(s) == [s |-> s, intro |-> "", lines |-> << >>]
ReplyText(intro, lines) == [s |-> << >>, intro |-> intro, lines |-> lines]
NoText == PromptText(<< >>)

\* a row of the results frame: its label, its cells and its _price
ResultRow(df, i) == [idx |-> i, cells |-> df.rows[i], price |-> DerivedPrice(df, i)]

\* the outcomes of a call: raised, or (reply, results) where results is
\* None (none = TRUE) or a frame
SearchRaised == [raised |-> TRUE, reply |-> NoText, none |-> TRUE, results |-> << >>]

Answer(df, f, r) ==
  [raised  |-> FALSE,
   reply   |-> ReplyText(Intro(f), [k \in 1..Len(r) |-> Render(df, r[k])]),
   none    |-> FALSE,
   results |-> [k \in 1..Len(r) |-> ResultRow(df, r[k])]]

\* search_properties(df, filters): the set of possible outcomes
search_properties(df, f) ==
  IF PriceRaises(df) THEN {SearchRaised}
  ELSE IF Filtered(df, f) = << >>
  THEN {[raised |-> FALSE, reply |-> ReplyText(NoMatchMessage, << >>),
         none |-> TRUE, results |-> << >>]}
  ELSE {Answer(df, f, HeadRows(p, f.limit)) : p \in Ranked(df, f, Filtered(df, f))}

----------------------------------------------------------------------------
(* The tables load_csvs can return and the prompts typed in the chat       *)

\* prices with units, one row without a price
TableUnits ==
  [columns |-> << <<"n","a","m","e">>, <<"c","i","t","y">>, <<"c","o","n","f","i","g">>, <<"p","r","i","c","e">> >>,
   rows |-> << << <<"S","e","a"," ","V","i","e","w">>, <<"M","u","m","b","a","i">>, <<"2"," ","B","H","K">>, <<"1",".","5"," ","C","r">> >>,
               << <<"H","i","l","l"," ","T","o","p">>, <<"P","u","n","e">>, <<"3"," ","b","h","k">>, <<"7","5"," ","L">> >>,
               << <<"G","r","e","e","n"," ","P","a","r","k">>, <<"P","u","n","e">>, <<"2","B","H","K">>, <<"5","0"," ","l","a","k","h">> >>,
               << <<"P","a","l","m"," ","C","o","u","r","t">>, <<"p","u","n","e">>, <<"2"," ","b","h","k">>, <<"o","n"," ","r","e","q","u","e","s","t">> >>,
               << <<"L","o","w"," ","R","i","s","e">>, <<"P","u","n","e">>, <<"1","2"," ","b","h","k">>, <<"2","0"," ","l","a","k","h">> >> >>]

\* a price cell without a number but with dots
TableNotAvailable ==
  [columns |-> << <<"t","i","t","l","e">>, <<"l","o","c","a","t","i","o","n">>, <<"a","m","o","u","n","t">>, <<"a","b","o","u","t">> >>,
   rows |-> << << <<"L","a","k","e"," ","V","i","e","w">>, <<"T","h","a","n","e">>, <<"N",".","A",".">>, <<"c","a","l","l"," ","u","s">> >>,
               << <<"M","e","t","r","o"," ","H","e","i","g","h","t","s">>, <<"M","u","m","b","a","i">>, <<"2"," ","C","r">>, <<"3"," ","B","H","K"," ","n","e","a","r"," ","s","t","a","t","i","o","n">> >> >>]

\* no price column at all
TableNoPrice ==
  [columns |-> << <<"p","r","o","j","e","c","t">>, <<"a","r","e","a">>, <<"d","e","t","a","i","l","s">> >>,
   rows |-> << << <<"R","o","s","e"," ","V","i","l","l","a">>, <<"P","u","n","e">>, <<"2"," ","b","h","k"," ","v","i","l","l","a">> >>,
               << <<"C","i","t","y"," ","N","e","s","t">>, <<"D","e","l","h","i">>, <<"1"," ","b","h","k">> >>,
               << <<"O","l","d"," ","F","o","r","t">>, <<"P","u","n","e">>, <<"3"," ","b","h","k">> >> >>]

\* bare numbers, two rows with the same price
TableBare ==
  [columns |-> << <<"p","r","o","j","e","c","t","n","a","m","e">>, <<"a","d","d","r","e","s","s">>, <<"d","e","s","c","r","i","p","t","i","o","n">>, <<"p","r","i","c","e"," ","(","i","n","r",")">> >>,
   rows |-> << << <<"A","l","p","h","a">>, <<"M","G"," ","R","o","a","d"," ","P","u","n","e">>, <<"2"," ","b","h","k"," ","f","a","m","i","l","y"," ","h","o","m","e">>, <<"5","0","0","0","0","0","0">> >>,
               << <<"G","a","m","m","a">>, <<"A","n","d","h","e","r","i"," ","M","u","m","b","a","i">>, <<"2"," ","b","h","k">>, <<"1","2","0">> >>,
               << <<"B","e","t","a">>, <<"B","a","n","e","r"," ","P","u","n","e">>, <<"l","u","x","u","r","y"," ","3"," ","b","h","k">>, <<"5","0","0","0","0","0","0">> >>,
               << <<"D","e","l","t","a">>, <<"W","a","k","a","d"," ","P","u","n","e">>, <<"2"," ","b","h","k">>, <<"9","9","9">> >> >>]

Tables == {TableUnits, TableNotAvailable, TableNoPrice, TableBare}

QueryTopLuxury == <<"t","o","p"," ","3"," ","l","u","x","u","r","y"," ","f","l","a","t","s"," ","i","n"," ","m","u","m","b","a","i">>

Queries ==
  { QueryTopLuxury,
    <<"c","h","e","a","p"," ","2","b","h","k"," ","i","n"," ","p","u","n","e"," ","u","n","d","e","r"," ","8","0","l">>,
    <<"t","o","p"," ","2"," ","c","h","e","a","p"," ","f","l","a","t","s"," ","i","n"," ","p","u","n","e">>,
    <<"c","h","e","a","p"," ","l","u","x","u","r","y"," ","f","l","a","t","s"," ","i","n"," ","p","u","n","e">>,
    <<"l","u","x","u","r","y"," ","f","l","a","t","s"," ","i","n"," ","p","u","n","e">>,
    <<"0"," ","b","h","k"," ","i","n"," ","p","u","n","e"," ","u","n","d","e","r"," ","0">>,
    <<"t","o","p"," ","0"," ","f","l","a","t","s"," ","i","n"," ","p","u","n","e">>,
    <<"f","l","a","t","s"," ","i","n"," ","p","u","n","e"," ","u","n","d","e","r",".",".","."," ","1","c","r">>,
    <<"f","l","a","t","s"," ","i","n"," ","m","u","m","b","a","y">>,
    <<"b","e","s","t"," ","2"," ","f","a","m","i","l","y"," ","f","l","a","t","s"," ","n","e","a","r"," ","d","e","l","h","i">>,
    <<"2"," ","B","H","K"," ","i","n"," ","C","h","e","n","n","a","i">> }

\* prompts handled in one session
MaxQueries == 2

----------------------------------------------------------------------------
(* The chat loop                                                           *)

\* last: the prompt handled last and what became of it (status), kept to
\* state the properties; submitted and completed count the prompts taken
\* and the prompts answered
NoCall ==
  [status |-> "none", prompt |-> << >>, filters |-> NoFilter, reply |-> NoText,
   none |-> TRUE, results |-> << >>, submitted |-> 0, completed |-> 0]

Init ==
  /\ data \in Tables
  /\ chat_history = << >>
  /\ last = NoCall
  /\ tok = NoToken
  /\ amount = Pending

UserEntry(prompt) == [role |-> "user", text |-> PromptText(prompt)]
AssistantEntry(reply) == [role |-> "assistant", text |-> reply]

\* One run of the script with a prompt typed (lines 197-209).  An exception
\* ends the run: what was appended before it stays in the session state.
Submit(prompt) ==
  /\ last.submitted < MaxQueries
  /\ \E city \in fuzzy_city(Strip(Lower(prompt))) :
       LET f == parse_query(prompt, city)
       IN  IF f.raised
           THEN /\ chat_history' = Append(chat_history, UserEntry(prompt))
                /\ last' = [NoCall EXCEPT !.status = "parse_raised",
                                          !.prompt = prompt,
                                          !.submitted = last.submitted + 1,
                                          !.completed = last.completed]
           ELSE \E o \in search_properties(data, f) :
                  IF o.raised
                  THEN /\ chat_history' = Append(chat_history, UserEntry(prompt))
                       /\ last' = [NoCall EXCEPT !.status = "search_raised",
                                                 !.prompt = prompt,
                                                 !.filters = f,
                                                 !.submitted = last.submitted + 1,
                                                 !.completed = last.completed]
                  ELSE /\ chat_history' =
                            chat_history \o <<UserEntry(prompt), AssistantEntry(o.reply)>>
                       /\ last' = [status |-> "answered", prompt |-> prompt,
                                   filters |-> f, reply |-> o.reply, none |-> o.none,
                                   results |-> o.results,
                                   submitted |-> last.submitted + 1,
                                   completed |-> last.completed + 1]
  /\ UNCHANGED <<data, tok, amount>>

Next == \E prompt \in Queries : Submit(prompt)

Spec == Init /\ [][Next]_vars

----------------------------------------------------------------------------
(* The price token normaliser on its own                                   *)

InitPrice ==
  /\ tok \in Tokens
  /\ amount = Pending
  /\ data = TableUnits
  /\ chat_history = << >>
  /\ last = NoCall

Normalize ==
  /\ amount = Pending
  /\ amount' = parse_price_token(TokenText(tok))
  /\ UNCHANGED <<data, chat_history, last, tok>>

NextPrice == Normalize

SpecPrice == InitPrice /\ [][NextPrice]_vars

----------------------------------------------------------------------------
(* Properties                                                              *)

\* parse_query returned a filter for the last prompt
Parsed == last.status \in {"answered", "search_raised"}

\* search_properties returned a frame for the last prompt
Returned == last.status = "answered" /\ ~last.none

Normalized == amount # Pending

\* the prices of the returned rows that have one, in result order
ReturnedPrices ==
  LET withPrice == SelectSeq(last.results, LAMBDA r : r.price # None)
  IN  [k \in 1..Len(withPrice) |-> FillNa(withPrice[k].price)]

NonDecreasing(ps) == \A k \in 1..(Len(ps) - 1) : Leq(ps[k], ps[k + 1])
NonIncreasing(ps) == \A k \in 1..(Len(ps) - 1) : Leq(ps[k + 1], ps[k])

\* C1: a returned row satisfies every constraint present in the filter
\* (city is not None: a cell contains the city; bhk is not None: a cell
\* contains the token "<n> bhk"; max_price is not None: the derived price
\* exists and is <= max_price).
C1_Conjunctive ==
  Returned =>
    \A k \in 1..Len(last.results) :
      LET r == last.results[k]
          f == last.filters
      IN  /\ f.city # NoCity => CityMatch(f.city, r.cells)
          /\ f.bhk # NoneInt => AnyBhkMatch(f.bhk, r.cells)
          /\ f.max_price # None =>
               r.price # None /\ Leq(FillNa(r.price), FillNa(f.max_price))

\* C2, as stated: with "cheap" among the intents the returned prices are
\* non-decreasing, and with "luxury" among the intents they are
\* non-increasing, whatever other tags the filter holds.
C2_SortedByEachTag ==
  Returned =>
    /\ Has("cheap", last.filters) => NonDecreasing(ReturnedPrices)
    /\ Has("luxury", last.filters) => NonIncreasing(ReturnedPrices)

\* C2, amended: "cheap" takes precedence.  With "cheap" among the intents
\* the returned prices are non-decreasing; with "luxury" and without
\* "cheap" they are non-increasing; rows without a price come last.
C2_SortedByPrecedence ==
  Returned =>
    /\ Has("cheap", last.filters) => NonDecreasing(ReturnedPrices)
    /\ Has("luxury", last.filters) /\ ~Has("cheap", last.filters)
         => NonIncreasing(ReturnedPrices)
    /\ Has("cheap", last.filters) \/ Has("luxury", last.filters) =>
         \A k \in 1..(Len(last.results) - 1) :
           last.results[k].price = None => last.results[k + 1].price = None

\* a luxury search without "cheap" that returned rows of different prices
C2_Witness ==
  /\ Returned
  /\ Has("luxury", last.filters) /\ ~Has("cheap", last.filters)
  /\ Len(ReturnedPrices) >= 2
  /\ ReturnedPrices[1] # ReturnedPrices[Len(ReturnedPrices)]

\* the tags whose keywords occur in the lower-cased, stripped prompt
ExpressedTags(prompt) ==
  {intents[i].tag : i \in {j \in 1..Len(intents) :
       \E w \in intents[j].words : Contains(w, Strip(Lower(prompt)))}}

\* C3, as stated: "top 3 luxury flats in mumbai" parses to city mumbai,
\* intents exactly {luxury} and limit 3; the detected intents are the tags
\* with a keyword in the query.
C3_TopLuxuryOnly ==
  Parsed =>
    /\ Range(last.filters.intents) = ExpressedTags(last.prompt)
    /\ last.prompt = QueryTopLuxury =>
         /\ last.filters.city = <<"m","u","m","b","a","i">>
         /\ Range(last.filters.intents) = {"luxury"}
         /\ last.filters.limit = 3

\* C3, amended: "top 3 luxury flats in mumbai" parses to city mumbai,
\* intents exactly {luxury, best} ("top" is a keyword of "best") and limit
\* 3; the detected intents are the tags with a keyword in the query.
C3_TopLuxuryAndBest ==
  Parsed =>
    /\ Range(last.filters.intents) = ExpressedTags(last.prompt)
    /\ last.prompt = QueryTopLuxury =>
         /\ last.filters.city = <<"m","u","m","b","a","i">>
         /\ last.filters.intents = <<"luxury", "best">>
         /\ last.filters.limit = 3

C3_Witness == last.status = "answered" /\ last.prompt = QueryTopLuxury

\* the number a well-formed token N stands for
NumberOf(num) == Float(RemoveCommas(num))

\* C4: a token "N cr" or "N crore" normalises to N * 10^7 and a token
\* "N lakh", "N lac" or "N l" to N * 10^5, thousands separators and
\* surrounding whitespace stripped.
C4_UnitScaling ==
  Normalized /\ tok.form = "unit" =>
    amount = Amt(Times10(NumberOf(tok.num),
                         IF Lower(tok.unit) \in {<<"c","r">>, <<"c","r","o","r","e">>} THEN 7 ELSE 5))

\* " 1,000 Cr " was normalised
C4_Witness ==
  /\ Normalized
  /\ tok.form = "unit" /\ tok.num = <<"1",",","0","0","0">> /\ tok.unit = <<"C","r">>
  /\ tok.sep = <<" ">> /\ tok.pad = <<" ">>
  /\ amount = Amt([m |-> 1, e |-> 10])

\* C5: a bare number N normalises to N * 10^5 when N < 1000 and to N when
\* N >= 1000; 999 gives 99900000, 1000 gives 1000 and 1001 gives 1001.
C5_BareThreshold ==
  Normalized /\ tok.form = "bare" =>
    /\ amount = IF Less(NumberOf(tok.num), FromInt(1000))
                THEN Amt(Times10(NumberOf(tok.num), 5))
                ELSE Amt(NumberOf(tok.num))
    /\ tok.num = <<"9","9","9">> => amount = Amt(FromInt(99900000))
    /\ tok.num = <<"1","0","0","0">> => amount = Amt(FromInt(1000))
    /\ tok.num = <<"1","0","0","1">> => amount = Amt(FromInt(1001))

\* the bare token 1000 was normalised
C5_Witness ==
  /\ Normalized
  /\ tok.form = "bare" /\ tok.num = <<"1","0","0","0">>
  /\ amount = Amt(FromInt(1000))

\* C6: search_properties never raises, and it returns the "no matching
\* properties" message with a None result exactly when no row passes the
\* filter.
C6_NoMatchMessage ==
  Parsed =>
    /\ last.status = "answered"
    /\ (\A i \in 1..Len(data.rows) : ~Mask(data, last.filters, i))
         <=> (last.none /\ last.reply = ReplyText(NoMatchMessage, << >>))

Vocabulary == {"cheap", "luxury", "best", "near", "family", "investment"}

\* C7: a filter returned by parse_query has bhk absent or positive, a
\* positive limit, and intents without duplicates drawn from the vocabulary.
C7_FilterInvariant ==
  Parsed =>
    LET f == last.filters
    IN  /\ f.bhk = NoneInt \/ f.bhk > 0
        /\ f.limit > 0
        /\ Range(f.intents) \subseteq Vocabulary
        /\ \A i, j \in 1..Len(f.intents) : f.intents[i] = f.intents[j] => i = j

\* C8: a returned frame holds rows of the table, each at most once, at
\* least one and at most limit of them, and under "cheap" no matching row
\* left out is cheaper than a returned one (a row without a price counts as
\* the most expensive).
C8_ResultBounded ==
  Returned =>
    LET rs   == last.results
        kept == {rs[k].idx : k \in 1..Len(rs)}
    IN  /\ \A k \in 1..Len(rs) :
             rs[k].idx \in 1..Len(data.rows) /\ rs[k].cells = data.rows[rs[k].idx]
        /\ \A i, j \in 1..Len(rs) : rs[i].idx = rs[j].idx => i = j
        /\ Len(rs) >= 1
        /\ Len(rs) <= last.filters.limit
        /\ Has("cheap", last.filters) =>
             \A i \in kept : \A j \in 1..Len(data.rows) :
               Mask(data, last.filters, j) /\ j \notin kept =>
                 Leq(FillNa(DerivedPrice(data, i)), FillNa(DerivedPrice(data, j)))

\* C9: parse_price_token never raises, and returns None for a text without
\* a digit.
C9_NoDigitNoAmount ==
  Normalized =>
    /\ amount # ValueError
    /\ (\A i \in 1..Len(TokenText(tok)) : TokenText(tok)[i] \notin Digits)
         => amount = None

\* C10: the transcript alternates user, assistant and is twice as long as
\* the number of answered prompts; every step appends the prompt and then
\* the reply made for it, changes no earlier entry, and leaves the table as
\* it was.
C10_TranscriptAppendOnly ==
  /\ [](/\ Len(chat_history) = 2 * last.completed
        /\ \A i \in 1..Len(chat_history) :
             chat_history[i].role = IF i % 2 = 1 THEN "user" ELSE "assistant")
  /\ [][/\ chat_history' =
             chat_history \o <<UserEntry(last'.prompt), AssistantEntry(last'.reply)>>
        /\ last'.status = "answered"
        /\ data' = data]_vars

====
